---------------------------- MODULE Spec2Model ----------------------------
(***************************************************************************)
(* YLS Prediction Tool (English_risk_app.py): a Streamlit script that is   *)
(* re-executed from top to bottom for every browser session and after      *)
(* every checkbox change.  One run loads (or fetches from the resource     *)
(* cache) the classifier and its explainer, stops if the model is missing, *)
(* collects the 42 checkbox answers, asks the classifier for the           *)
(* probability, derives the sum score and the risk level, and draws the    *)
(* SHAP waterfall plot.                                                    *)
(*                                                                         *)
(* Probabilities are kept as integers in units of 1/ProbOne.  The trained  *)
(* model file and the SHAP library are not part of the repository: the     *)
(* classifier and the explainer are deterministic stand-ins whose output   *)
(* depends on the position of every feature, so that a vector in the wrong *)
(* order gives a different answer.                                         *)
(***************************************************************************)
EXTENDS Integers, Sequences, FiniteSets, TLC

\* ------------------------------------------------------------------------
\* Bounds of the model
\* ------------------------------------------------------------------------

\* The user ticks the boxes from the top of the form down; at most this many
\* boxes may be out of that sequence at any time.
MaxOutOfOrder == 0

\* The count of model loads is recorded up to this number.
MaxLoads == 2

\* The history counts the finished runs for its answer vector up to this
\* number.
MaxRuns == 2

\* ------------------------------------------------------------------------
\* 2. YLS data definitions
\* ------------------------------------------------------------------------

\* A list with every element evaluated: the same sequence, held as a tuple.
List(f) == SubSeq(f, 1, Len(f))

Item(i, l) == [id |-> i, label |-> l]

YLS_DOMAINS ==
    << [name |-> "1. Prior and Current Offenses/Dispositions",
        items |-> << Item("YLS_1a", "YLS 1a"), Item("YLS_1b", "YLS 1b"),
                     Item("YLS_1c", "YLS 1c"), Item("YLS_1d", "YLS 1d"),
                     Item("YLS_1e", "YLS 1e") >>],
       [name |-> "2. Family Circumstances/Parenting",
        items |-> << Item("YLS_2a", "YLS 2a"), Item("YLS_2b", "YLS 2b"),
                     Item("YLS_2c", "YLS 2c"), Item("YLS_2d", "YLS 2d"),
                     Item("YLS_2e", "YLS 2e"), Item("YLS_2f", "YLS 2f") >>],
       [name |-> "3. Education/Employment",
        items |-> << Item("YLS_3a", "YLS 3a"), Item("YLS_3b", "YLS 3b"),
                     Item("YLS_3c", "YLS 3c"), Item("YLS_3d", "YLS 3d"),
                     Item("YLS_3e", "YLS 3e"), Item("YLS_3f", "YLS 3f"),
                     Item("YLS_3g", "YLS 3g") >>],
       [name |-> "4. Peer Relations",
        items |-> << Item("YLS_4a", "YLS 4a"), Item("YLS_4b", "YLS 4b"),
                     Item("YLS_4c", "YLS 4c"), Item("YLS_4d", "YLS 4d") >>],
       [name |-> "5. Substance Abuse",
        items |-> << Item("YLS_5a", "YLS 5a"), Item("YLS_5b", "YLS 5b"),
                     Item("YLS_5c", "YLS 5c"), Item("YLS_5d", "YLS 5d"),
                     Item("YLS_5e", "YLS 5e") >>],
       [name |-> "6. Leisure/Recreation",
        items |-> << Item("YLS_6a", "YLS 6a"), Item("YLS_6b", "YLS 6b"),
                     Item("YLS_6c", "YLS 6c") >>],
       [name |-> "7. Personality/Behavior",
        items |-> << Item("YLS_7a", "YLS 7a"), Item("YLS_7b", "YLS 7b"),
                     Item("YLS_7c", "YLS 7c"), Item("YLS_7d", "YLS 7d"),
                     Item("YLS_7e", "YLS 7e"), Item("YLS_7f", "YLS 7f"),
                     Item("YLS_7g", "YLS 7g") >>],
       [name |-> "8. Attitudes/Orientation",
        items |-> << Item("YLS_8a", "YLS 8a"), Item("YLS_8b", "YLS 8b"),
                     Item("YLS_8c", "YLS 8c"), Item("YLS_8d", "YLS 8d"),
                     Item("YLS_8e", "YLS 8e") >>] >>

\* The items of all domains, in the order the two nested loops visit them.
RECURSIVE AllItems(_)
AllItems(d) ==
    IF d > Len(YLS_DOMAINS) THEN << >>
    ELSE YLS_DOMAINS[d].items \o AllItems(d + 1)

ITEMS == AllItems(1)

\* ALL_FEATURES.append(item["id"]) for every item.
ALL_FEATURES == List([i \in 1..Len(ITEMS) |-> ITEMS[i].id])

NumItems == Len(ALL_FEATURES)

FeatureIds == {ALL_FEATURES[i] : i \in 1..NumItems}

\* LABELS_DICT[item["id"]] = item["label"] for every item.
LABELS_DICT ==
    [f \in FeatureIds |->
        LET i == CHOOSE k \in 1..NumItems :
                     /\ ITEMS[k].id = f
                     /\ \A j \in (k + 1)..NumItems : ITEMS[j].id # f
        IN  ITEMS[i].label]

\* LABELS_DICT.get(f, f)
LabelOf(f) == IF f \in DOMAIN LABELS_DICT THEN LABELS_DICT[f] ELSE f

\* ------------------------------------------------------------------------
\* Values of the external libraries, as far as the script uses them
\* ------------------------------------------------------------------------

None == [kind |-> "None"]

\* Exceptions, by their class.
KeyError == [kind |-> "KeyError"]

IndexError == [kind |-> "IndexError"]

Exception == [kind |-> "Exception"]

\* A Python string.
Str(t) == [kind |-> "str", text |-> t]

\* A Python dict is a sequence of <<key, value>> pairs in insertion order.
DictKeys(d) == List([i \in 1..Len(d) |-> d[i][1]])

\* The dict that the assignments d[k] = v of the sequence a, made in order
\* on an empty dict, leave: a key stands where it was first assigned and
\* holds what it was last assigned.  When no key is assigned twice that is
\* the sequence a itself.
DictOf(a) ==
    LET numbered == [i \in 1..Len(a) |-> << i, a[i][1] >>]
        IsFirst(e) == \A j \in 1..(e[1] - 1) : a[j][1] # e[2]
        firsts == SelectSeq(numbered, IsFirst)
        last(key) == CHOOSE i \in 1..Len(a) :
                         /\ a[i][1] = key
                         /\ \A j \in (i + 1)..Len(a) : a[j][1] # key
    IN  IF Cardinality({a[i][1] : i \in 1..Len(a)}) = Len(a)
        THEN a
        ELSE List([k \in 1..Len(firsts) |->
                     << firsts[k][2], a[last(firsts[k][2])][2] >>])

\* pd.DataFrame([d]): one row, one column per key, in the dict's order.
DataFrame(d) ==
    [columns |-> DictKeys(d), row |-> List([i \in 1..Len(d) |-> d[i][2]])]

\* A faulty column selection: the columns are taken as they stand.
SelectColumnsByPosition(df, cols) == [columns |-> cols, row |-> df.row]

\* df[cols]: the named columns in the order of cols, each found by its name;
\* a name that is no column of df raises KeyError.
SelectColumns(df, cols) ==
    IF \E i \in 1..Len(cols) :
           \A j \in 1..Len(df.columns) : df.columns[j] # cols[i]
    THEN KeyError
    ELSE [columns |-> cols,
          row |-> List([i \in 1..Len(cols) |->
                          df.row[CHOOSE j \in 1..Len(df.columns) :
                                     df.columns[j] = cols[i]]])]

\* s[lo] + ... + s[hi]
RECURSIVE SumSeq(_, _, _)
SumSeq(s, lo, hi) ==
    IF lo > hi THEN 0
    ELSE IF lo = hi THEN s[lo]
    ELSE LET mid == (lo + hi) \div 2
         IN  SumSeq(s, lo, mid) + SumSeq(s, mid + 1, hi)

\* A faulty sum: the last column is left out.
RowSumShort(df) == SumSeq(df.row, 1, Len(df.row) - 1)

\* df.sum(axis=1).values[0]
RowSum(df) == SumSeq(df.row, 1, Len(df.row))

\* The probability 1.0 in the model's unit (the result box prints the
\* probability with this resolution: tenths of a percent).
ProbOne == 1000

\* Stand-in for the trained classifier: the feature at position i weighs i.
WeightedSum(s) == SumSeq([i \in 1..Len(s) |-> i * s[i]], 1, Len(s))

WeightTotal == (NumItems * (NumItems + 1)) \div 2

\* model.predict_proba(df): one row <<P(class 0), P(class 1)>>; the features
\* are read by position.
PredictProba(df) ==
    LET p1 == (WeightedSum(df.row) * ProbOne) \div WeightTotal
    IN  << <<ProbOne - p1, p1>> >>

\* Stand-in for the contribution of the feature at position i with value x.
Phi(i, x) == IF x = 1 THEN i ELSE 0 - (NumItems + 1 - i)

Shapes == {"single", "perclass"}

\* explainer(df): an Explanation of one row.  A single-output explainer gives
\* values of shape (1, n); a per-class explainer gives shape (1, n, 2), the
\* contributions to class 0 and to class 1 of every feature.
Explain(e, df) ==
    [values |->
        << List([i \in 1..Len(df.row) |->
                   IF e.shape = "single"
                   THEN Phi(i, df.row[i])
                   ELSE << 0 - Phi(i, df.row[i]), Phi(i, df.row[i]) >>]) >>,
     ndim |-> IF e.shape = "single" THEN 2 ELSE 3,
     data |-> << df.row >>,
     feature_names |-> df.columns]

\* shap_values[0, :, 1]: the contributions to class 1 of the first row;
\* IndexError on an Explanation of fewer than three dimensions.
IndexRowAllClass1(sv) ==
    IF sv.ndim < 3 THEN IndexError
    ELSE [values |-> List([i \in 1..Len(sv.values[1]) |->
                             sv.values[1][i][2]]),
          ndim |-> 1,
          data |-> sv.data[1],
          feature_names |-> sv.feature_names]

\* shap_values[0]: the first row.
IndexRow(sv) ==
    [values |-> sv.values[1],
     ndim |-> sv.ndim - 1,
     data |-> sv.data[1],
     feature_names |-> sv.feature_names]

Abs(x) == IF x < 0 THEN 0 - x ELSE x

Min(a, b) == IF a < b THEN a ELSE b

\* The number of features that come before feature i when the features are
\* ordered by the size of their contribution, largest first.
Rank(v, i) ==
    Cardinality({j \in 1..Len(v) :
                    \/ Abs(v[j]) > Abs(v[i])
                    \/ (Abs(v[j]) = Abs(v[i]) /\ j < i)})

\* shap.plots.waterfall(expl, max_display=m, show=False): one bar per feature
\* when there are at most m features; otherwise the m - 1 largest
\* contributions get a bar each and the rest are merged into one bar
\* ("k other features").  It raises on anything but a single explanation.
Waterfall(expl, m) ==
    IF expl = IndexError \/ expl.ndim # 1 THEN Exception
    ELSE LET n == Len(expl.values)
             shownN == Min(m, n)
             bars == IF shownN = n THEN 1..n
                     ELSE {i \in 1..n : Rank(expl.values, i) < shownN - 1}
         IN  [rows |-> {[pos |-> i,
                         label |-> expl.feature_names[i],
                         value |-> expl.values[i]] : i \in bars},
              other |-> n - Cardinality(bars)]

\* ------------------------------------------------------------------------
\* Risk level logic
\* ------------------------------------------------------------------------

HighCut == 710
MediumCut == 330
LowCut == 180

\* A faulty risk level logic: > where the script has >=.
RiskLevelExclusive(p) ==
    IF p > HighCut
    THEN [color |-> "#dc3545", text |-> "High Risk", bg |-> "#ffe6e6"]
    ELSE IF p > MediumCut
    THEN [color |-> "#fd7e14", text |-> "Medium Risk", bg |-> "#fff3cd"]
    ELSE IF p > LowCut
    THEN [color |-> "#0d6efd", text |-> "Low Risk", bg |-> "#e7f1ff"]
    ELSE [color |-> "#198754", text |-> "Lowest Risk", bg |-> "#e8f5e9"]

\* if prob >= 0.71 ... elif prob >= 0.33 ... elif prob >= 0.18 ... else ...
RiskLevel(p) ==
    IF p >= HighCut
    THEN [color |-> "#dc3545", text |-> "High Risk", bg |-> "#ffe6e6"]
    ELSE IF p >= MediumCut
    THEN [color |-> "#fd7e14", text |-> "Medium Risk", bg |-> "#fff3cd"]
    ELSE IF p >= LowCut
    THEN [color |-> "#0d6efd", text |-> "Low Risk", bg |-> "#e7f1ff"]
    ELSE [color |-> "#198754", text |-> "Lowest Risk", bg |-> "#e8f5e9"]

MaxDisplay == 42

\* ------------------------------------------------------------------------
\* State
\* ------------------------------------------------------------------------

VARIABLES
    cache,          \* st.cache_resource entry of load_ai_model: << >> or
                    \* the cached return value <<model, explainer>>
    loads,          \* how often model.load_model has been called
    model,          \* the script's global model (None before line 111)
    explainer,      \* the script's global explainer
    checked,        \* widget state of the session: ids of the ticked boxes
    pc,             \* where the current script run stands
    user_inputs,    \* dict id -> 0/1
    valid_input_df, \* the feature frame
    prob,
    total_score,
    risk,           \* color, text and bg of the risk level
    shap_values,
    calls,          \* arguments this run gave to predict_proba / the explainer
    page,           \* what this run has put on the page
    ref             \* history: the result first shown for one answer vector

vars == << cache, loads, model, explainer, checked, pc, user_inputs,
           valid_input_df, prob, total_score, risk, shap_values, calls,
           page, ref >>

\* A script run starts with no globals of its own and an empty page.
BlankPage == [error |-> "", result |-> None, plot |-> None]

NoCalls == [predict |-> None, explain |-> None]

\* A faulty rerun: what the last run put on the page stays there.
RunStartsStalePage ==
    /\ pc' = "start"
    /\ model' = None
    /\ explainer' = None
    /\ user_inputs' = << >>
    /\ valid_input_df' = None
    /\ prob' = None
    /\ total_score' = None
    /\ risk' = None
    /\ shap_values' = None
    /\ calls' = NoCalls
    /\ page' = page

RunStarts ==
    /\ pc' = "start"
    /\ model' = None
    /\ explainer' = None
    /\ user_inputs' = << >>
    /\ valid_input_df' = None
    /\ prob' = None
    /\ total_score' = None
    /\ risk' = None
    /\ shap_values' = None
    /\ calls' = NoCalls
    /\ page' = BlankPage

\* The answer vectors the user produces: the first n boxes ticked, for any n,
\* with at most MaxOutOfOrder boxes differing from that.
Prefix(n) == {ALL_FEATURES[i] : i \in 1..n}

Flip(S, f) == IF f \in S THEN S \ {f} ELSE S \cup {f}

RECURSIVE Near(_)
Near(k) ==
    IF k = 0 THEN {Prefix(n) : n \in 0..NumItems}
    ELSE LET N == Near(k - 1)
         IN  N \cup {Flip(S, f) : S \in N, f \in FeatureIds}

AnswerVectors == Near(MaxOutOfOrder)

\* The process has just started: nothing is cached, the first session has
\* no box ticked and its first script run is about to begin.
ProcessStarts ==
    /\ cache = << >>
    /\ loads = 0
    /\ model = None
    /\ explainer = None
    /\ checked = {}
    /\ pc = "start"
    /\ user_inputs = << >>
    /\ valid_input_df = None
    /\ prob = None
    /\ total_score = None
    /\ risk = None
    /\ shap_values = None
    /\ calls = NoCalls
    /\ page = BlankPage

Init ==
    /\ ProcessStarts
    /\ ref = [kind |-> "off"]

\* ------------------------------------------------------------------------
\* 3. Load model
\* ------------------------------------------------------------------------

\* A faulty cache: every lookup misses.
CacheLookupMiss(c) == << >>

\* @st.cache_resource: the value cached for load_ai_model(), if any.
CacheLookup(c) == c

\* A faulty check: the missing model goes unnoticed.
ModelMissingIgnored(m) == FALSE

\* if model is None
ModelMissing(m) == m = None

\* After model, explainer = load_ai_model(): st.error(...) and st.stop() when
\* the model is missing, otherwise the script goes on.
CheckModel ==
    IF ModelMissing(model')
    THEN /\ page' = [page EXCEPT !.error = "model not found"]
         /\ pc' = "stopped"
    ELSE /\ page' = page
         /\ pc' = "inputs"

\* load_ai_model() runs and the model file is readable: the classifier and an
\* explainer built from it are returned and cached.
LoadModelOk ==
    /\ pc = "start"
    /\ CacheLookup(cache) = << >>
    /\ \E sh \in Shapes :
          LET m == [id |-> loads + 1]
              e == [model |-> m, shape |-> sh]
          IN  /\ cache' = << m, e >>
              /\ model' = m
              /\ explainer' = e
    /\ loads' = Min(loads + 1, MaxLoads)
    /\ CheckModel
    /\ UNCHANGED << checked, user_inputs, valid_input_df, prob, total_score,
                    risk, shap_values, calls, ref >>

\* load_ai_model() runs and load_model raises: (None, message) is returned,
\* and cached like any return value.
LoadModelFails ==
    /\ pc = "start"
    /\ CacheLookup(cache) = << >>
    /\ cache' = << None, Str("Model loading error") >>
    /\ model' = None
    /\ explainer' = Str("Model loading error")
    /\ loads' = Min(loads + 1, MaxLoads)
    /\ CheckModel
    /\ UNCHANGED << checked, user_inputs, valid_input_df, prob, total_score,
                    risk, shap_values, calls, ref >>

\* load_ai_model() is answered from the cache.
LoadModelCached ==
    /\ pc = "start"
    /\ CacheLookup(cache) # << >>
    /\ model' = CacheLookup(cache)[1]
    /\ explainer' = CacheLookup(cache)[2]
    /\ CheckModel
    /\ UNCHANGED << cache, loads, checked, user_inputs, valid_input_df, prob,
                    total_score, risk, shap_values, calls, ref >>

\* ------------------------------------------------------------------------
\* 4. Left panel: input checkboxes; right panel: prediction result
\* ------------------------------------------------------------------------

\* st.checkbox(label, key=id): the widget state of the box.
Checkbox(ticked, id) == id \in ticked

\* The assignments user_inputs[item["id"]] = 1 if is_checked else 0 that the
\* loops over the domains and their items make, in order.
Assignments(ticked) ==
    List([i \in 1..Len(ITEMS) |->
            << ITEMS[i].id, IF Checkbox(ticked, ITEMS[i].id) THEN 1 ELSE 0 >>])

\* input_df = pd.DataFrame([user_inputs]); valid_input_df = input_df[ALL_FEATURES]
ValidInputDf(d) == SelectColumns(DataFrame(d), ALL_FEATURES)

\* predict_proba(...)[0][1]: first row, probability of class 1.
PositiveClass(proba) == proba[1][2]

\* The result box: level text and colours, probability, int(total_score).
ResultBox(level, p, total) ==
    [text |-> level.text, color |-> level.color, bg |-> level.bg,
     prob |-> p, total |-> total]

\* A faulty call of the classifier: its exception is swallowed and the script
\* goes on.
ClassifierRaisesSwallowed(df) ==
    /\ valid_input_df' = df
    /\ calls' = [calls EXCEPT !.predict = df]
    /\ page' = page
    /\ pc' = "explain"
    /\ UNCHANGED << prob, total_score, risk >>

\* The classifier raises: the exception leaves the script, Streamlit shows
\* it and the run is over.
ClassifierRaises(df) ==
    /\ valid_input_df' = df
    /\ calls' = [calls EXCEPT !.predict = df]
    /\ page' = [page EXCEPT !.error = "exception"]
    /\ pc' = "error"
    /\ UNCHANGED << prob, total_score, risk >>

\* The classifier answers: the probability of class 1, the sum score and the
\* risk level are taken and the result box is written.
ClassifierAnswers(df) ==
    /\ valid_input_df' = df
    /\ calls' = [calls EXCEPT !.predict = df]
    /\ prob' = PositiveClass(PredictProba(df))
    /\ total_score' = RowSum(df)
    /\ risk' = RiskLevel(prob')
    /\ page' = [page EXCEPT !.result = ResultBox(risk', prob', total_score')]
    /\ pc' = "explain"

\* The answers are collected and the frame is built; a KeyError of the
\* column selection ends the run before the classifier is called.
Collect(df) ==
    /\ df = KeyError
    /\ page' = [page EXCEPT !.error = "exception"]
    /\ pc' = "error"
    /\ UNCHANGED << valid_input_df, prob, total_score, risk, calls >>

\* Lines 123 to 191 of one run: the left panel and the prediction result.
Score ==
    /\ pc = "inputs"
    /\ user_inputs' = DictOf(Assignments(checked))
    /\ LET df == ValidInputDf(DictOf(Assignments(checked)))
       IN  IF df = KeyError
           THEN Collect(df)
           ELSE ClassifierAnswers(df)
    /\ UNCHANGED << cache, loads, model, explainer, checked, shap_values,
                    ref >>

\* The same lines when predict_proba raises.
ScoreRaises ==
    /\ pc = "inputs"
    /\ user_inputs' = DictOf(Assignments(checked))
    /\ LET df == ValidInputDf(DictOf(Assignments(checked)))
       IN  /\ df # KeyError
           /\ ClassifierRaises(df)
    /\ UNCHANGED << cache, loads, model, explainer, checked, shap_values,
                    ref >>

\* ------------------------------------------------------------------------
\* SHAP graph
\* ------------------------------------------------------------------------

\* [LABELS_DICT.get(f, f) for f in ALL_FEATURES]
FeatureNames ==
    List([i \in 1..Len(ALL_FEATURES) |-> LabelOf(ALL_FEATURES[i])])

\* A faulty try: there is no except branch.
OrElseNothing(first, second) == first

\* try: first  except: second
OrElse(first, second) == IF first # Exception THEN first ELSE second

\* A faulty plot call: max_display is left at the library's default of 10.
TryWaterfallDefault(sv) ==
    OrElse(Waterfall(IndexRowAllClass1(sv), 10), Waterfall(IndexRow(sv), 10))

\* try: waterfall(shap_values[0, :, 1], ...)  except: waterfall(shap_values[0], ...)
TryWaterfall(sv) ==
    OrElse(Waterfall(IndexRowAllClass1(sv), MaxDisplay),
           Waterfall(IndexRow(sv), MaxDisplay))

\* What the history keeps of a finished run for the answer vector it
\* follows: the page of the first such run, and how many there were.
Remember(r, ticked, shown) ==
    IF r.kind = "on" /\ r.answers = ticked
    THEN [r EXCEPT !.result = IF @ = None THEN shown ELSE @,
                   !.runs = IF @ < MaxRuns THEN @ + 1 ELSE @]
    ELSE r

\* shap_values = explainer(valid_input_df), its feature names are replaced by
\* the labels, and the waterfall plot is drawn and put on the page; an
\* exception of the second attempt leaves the script.
Attribution ==
    /\ pc = "explain"
    /\ calls' = [calls EXCEPT !.explain = valid_input_df]
    /\ LET sv == [Explain(explainer, valid_input_df)
                    EXCEPT !.feature_names = FeatureNames]
           fig == TryWaterfall(sv)
       IN  /\ shap_values' = sv
           /\ IF fig = Exception
              THEN /\ page' = [page EXCEPT !.error = "exception"]
                   /\ pc' = "error"
                   /\ ref' = ref
              ELSE /\ page' = [page EXCEPT !.plot = fig]
                   /\ pc' = "done"
                   /\ ref' = Remember(ref, checked, [page EXCEPT !.plot = fig])
    /\ UNCHANGED << cache, loads, model, explainer, checked, user_inputs,
                    valid_input_df, prob, total_score, risk >>

\* ------------------------------------------------------------------------
\* The user
\* ------------------------------------------------------------------------

\* The user ticks or unticks one of the boxes on the page: the widget state
\* changes and the script runs again.
Toggle ==
    /\ pc \in {"done", "error"}
    /\ \E f \in FeatureIds :
          /\ Flip(checked, f) \in AnswerVectors
          /\ checked' = Flip(checked, f)
    /\ RunStarts
    /\ UNCHANGED << cache, loads, ref >>

\* The page is opened again: a new session, with no box ticked, runs the
\* script in the same process.
NewSession ==
    /\ pc \in {"done", "error", "stopped"}
    /\ checked' = {}
    /\ RunStarts
    /\ UNCHANGED << cache, loads, ref >>

Next ==
    \/ LoadModelOk
    \/ LoadModelFails
    \/ LoadModelCached
    \/ Score
    \/ ScoreRaises
    \/ Attribution
    \/ Toggle
    \/ NewSession

Spec == Init /\ [][Next]_vars

\* ------------------------------------------------------------------------
\* The risk level logic on its own, for every probability
\* ------------------------------------------------------------------------

\* Any probability may come back from the classifier.
InitTier ==
    /\ cache = << >>
    /\ loads = 0
    /\ model = None
    /\ explainer = None
    /\ checked = {}
    /\ pc = "prob"
    /\ user_inputs = << >>
    /\ valid_input_df = None
    /\ prob \in 0..ProbOne
    /\ total_score = None
    /\ risk = None
    /\ shap_values = None
    /\ calls = NoCalls
    /\ page = BlankPage
    /\ ref = [kind |-> "off"]

\* Lines 153 to 169: risk_color, risk_text and bg_color are set from prob.
RiskLevelLogic ==
    /\ pc = "prob"
    /\ risk' = RiskLevel(prob)
    /\ pc' = "risk"
    /\ UNCHANGED << cache, loads, model, explainer, checked, user_inputs,
                    valid_input_df, prob, total_score, shap_values, calls,
                    page, ref >>

NextTier == RiskLevelLogic

SpecTier == InitTier /\ [][NextTier]_vars

\* ------------------------------------------------------------------------
\* The program with the history of one answer vector
\* ------------------------------------------------------------------------

\* The answer vectors whose results the history may follow.
RefVectors == {Prefix(1), Prefix(NumItems)}

InitIdem ==
    /\ ProcessStarts
    /\ \E S \in RefVectors :
          ref = [kind |-> "on", answers |-> S, result |-> None, runs |-> 0]

SpecIdem == InitIdem /\ [][Next]_vars

\* ------------------------------------------------------------------------
\* Properties
\* ------------------------------------------------------------------------

\* C1: every probability gets exactly one risk level: High Risk from 0.71 up,
\* Medium Risk from 0.33 up to but not including 0.71, Low Risk from 0.18 up
\* to but not including 0.33, Lowest Risk below 0.18; each cut-point belongs
\* to the level above it.
TierBands ==
    pc = "risk" =>
        LET p == prob * 100
            levels == {"High Risk", "Medium Risk", "Low Risk", "Lowest Risk"}
        IN  /\ risk.text \in levels
            /\ risk.text = "High Risk" <=> p >= 71 * ProbOne
            /\ risk.text = "Medium Risk" <=>
                   (p >= 33 * ProbOne /\ p < 71 * ProbOne)
            /\ risk.text = "Low Risk" <=>
                   (p >= 18 * ProbOne /\ p < 33 * ProbOne)
            /\ risk.text = "Lowest Risk" <=> p < 18 * ProbOne

\* A probability exactly on the lowest cut-point has been given its level.
TierOnCutPoint ==
    /\ pc = "risk"
    /\ prob * 100 = 18 * ProbOne
    /\ risk.text = "Low Risk"

\* C2: the frame handed to predict_proba and the frame handed to the
\* explainer are the same; its i-th value is the answer to the i-th id of
\* ALL_FEATURES, and the i-th feature name of the explanation is the label of
\* that id; the frame is the same when the answers are collected in another
\* order (here: the reverse order, and the first answer collected last).
SameOrderedVector ==
    LET answer(f) == IF f \in checked THEN 1 ELSE 0
        labelOf(f) == ITEMS[CHOOSE k \in 1..Len(ITEMS) : ITEMS[k].id = f].label
        n == Len(user_inputs)
        reversed == [i \in 1..n |-> user_inputs[n + 1 - i]]
        rotated == [i \in 1..n |-> user_inputs[(i % n) + 1]]
    IN  /\ calls.predict # None =>
              /\ Len(calls.predict.row) = Len(ALL_FEATURES)
              /\ calls.predict.columns = ALL_FEATURES
              /\ \A i \in 1..Len(ALL_FEATURES) :
                     calls.predict.row[i] = answer(ALL_FEATURES[i])
              /\ ValidInputDf(reversed) = calls.predict
              /\ ValidInputDf(rotated) = calls.predict
        /\ calls.explain # None =>
              /\ calls.explain = calls.predict
              /\ shap_values.data = << calls.predict.row >>
              /\ Len(shap_values.feature_names) = Len(ALL_FEATURES)
              /\ \A i \in 1..Len(ALL_FEATURES) :
                     shap_values.feature_names[i] = labelOf(ALL_FEATURES[i])

\* A run has predicted and explained a vector with ticked and unticked boxes.
MixedVectorExplained ==
    /\ pc = "done"
    /\ calls.predict # None
    /\ calls.explain # None
    /\ checked # {}
    /\ checked # FeatureIds

\* C3: the sum score is the number of boxes ticked, which is the sum of the 42
\* answers and lies between 0 and 42; the result box shows it.
SumScoreIsCount ==
    page.result # None =>
        /\ total_score = Cardinality(checked)
        /\ total_score \in 0..42
        /\ page.result.total = total_score
        /\ (checked = {}) => total_score = 0
        /\ (checked = FeatureIds) => total_score = 42

\* All boxes are ticked and the result box shows the score.
AllTickedScored ==
    /\ pc = "done"
    /\ checked = FeatureIds
    /\ page.result.total = 42

\* C5: nothing is predicted, explained or shown as a result unless the
\* classifier was loaded and the explainer is one built from it; after a
\* failed load every run shows the error and stops.
NoScoringWithoutModel ==
    LET loaded == /\ model # None
                  /\ "shape" \in DOMAIN explainer
                  /\ explainer.model = model
        scored == \/ calls.predict # None
                  \/ calls.explain # None
                  \/ risk # None
                  \/ shap_values # None
                  \/ page.result # None
                  \/ page.plot # None
    IN  /\ scored => loaded
        /\ (cache # << >> /\ cache[1] = None /\ pc # "start") =>
               /\ pc = "stopped"
               /\ page.error = "model not found"
               /\ ~scored

\* The load has failed and the run has stopped with the error on the page.
StoppedAfterFailedLoad ==
    /\ cache # << >>
    /\ cache[1] = None
    /\ pc = "stopped"
    /\ page.error = "model not found"

\* C6: the model is loaded and the explainer built at most once; what the
\* first load cached is never replaced or changed, and every run past the
\* load works with exactly the cached pair.
LoadedOnce ==
    [][ /\ loads' <= 1
        /\ cache # << >> => (cache' = cache /\ loads' = loads)
        /\ pc' # "start" => (cache' # << >> /\ model' = cache'[1]
                                            /\ explainer' = cache'[2])
      ]_vars

\* A later run (a box is ticked by now) has finished with the pair cached by
\* the one load.
LaterRunReusesCache ==
    /\ pc = "done"
    /\ checked # {}
    /\ loads = 1
    /\ model = cache[1]
    /\ explainer = cache[2]

\* C7: with per-class contributions the plot shows the contributions to
\* class 1, with a single row of contributions it shows that row; once the
\* explainer has answered, the run ends with the plot and without an error.
BothShapesPlotted ==
    shap_values # None =>
        /\ pc = "done"
        /\ page.error = ""
        /\ page.plot # None
        /\ page.plot.rows # {}
        /\ \A r \in page.plot.rows :
               r.value = IF explainer.shape = "perclass"
                         THEN shap_values.values[1][r.pos][2]
                         ELSE shap_values.values[1][r.pos]

\* A single row of contributions has been plotted.
SingleRowPlotted ==
    /\ pc = "done"
    /\ explainer.shape = "single"
    /\ shap_values.ndim = 2
    /\ page.plot # None

\* C8: when predict_proba raises, the run ends there with the exception on
\* the page and nothing else: no probability, no risk level, no sum score, no
\* explanation, no plot; the cached model and explainer are as they were,
\* and a new run can start.
ClassifierErrorEndsRun ==
    (calls.predict # None /\ page.result = None) =>
        /\ pc = "error"
        /\ page.error = "exception"
        /\ page.plot = None
        /\ risk = None
        /\ calls.explain = None
        /\ shap_values = None
        /\ cache = << model, explainer >>
        /\ model # None
        /\ loads = 1
        /\ ENABLED NewSession

\* predict_proba has raised in a run.
ClassifierHasRaised ==
    /\ pc = "error"
    /\ calls.predict # None
    /\ page.result = None
    /\ page.error = "exception"

\* C9: the plot has exactly 42 bars, one for each of the 42 items, each under
\* the label of its item, and no contributions merged into one bar.
AllItemsPlotted ==
    pc = "done" =>
        /\ Cardinality(page.plot.rows) = 42
        /\ {r.pos : r \in page.plot.rows} = 1..42
        /\ {r.label : r \in page.plot.rows}
               = {ITEMS[i].label : i \in 1..Len(ITEMS)}
        /\ \A r \in page.plot.rows : r.label = ITEMS[r.pos].label
        /\ Cardinality({r.label : r \in page.plot.rows}) = 42
        /\ page.plot.other = 0
        /\ Len(shap_values.values[1]) = 42

\* A plot has been drawn for a vector with ticked and unticked boxes.
PlotDrawn ==
    /\ pc = "done"
    /\ page.plot # None
    /\ Cardinality(checked) = 21

\* C10: a run for the answer vector the history follows puts on the page
\* exactly what the first run for that vector did: probability, risk level,
\* sum score and plot; and every run starts with nothing of an earlier run.
SameVectorSameResult ==
    /\ (ref.kind = "on" /\ pc = "done" /\ checked = ref.answers) =>
           /\ ref.result # None
           /\ page = ref.result
    /\ pc = "start" =>
           /\ user_inputs = << >>
           /\ valid_input_df = None
           /\ prob = None
           /\ total_score = None
           /\ risk = None
           /\ shap_values = None
           /\ page = BlankPage

\* The followed vector is on the form again after another vector was scored
\* in between, and its run has finished.
ScoredAgain ==
    /\ ref.kind = "on"
    /\ ref.runs >= 2
    /\ ref.answers = Prefix(1)
    /\ checked = ref.answers
    /\ pc = "done"

=============================================================================
